---- MODULE Spec2Model ----
(***************************************************************************)
(* Registro de Lecturas: the persistence layer (modelo.py), the            *)
(* coordinator (controlador.py) and the view state the coordinator reads   *)
(* and writes (vista.py), as a state machine.                              *)
(*                                                                         *)
(* Encoding of values                                                      *)
(*   - titulo and autor are sequences of one-character strings, so that    *)
(*     the LIKE filter of obtener_libros is computed, not looked up;       *)
(*   - the other text columns are strings;                                 *)
(*   - dates (ISO text yyyy-mm-dd in the program, compared as text) are    *)
(*     the integers yyyymmdd, whose order is the order of the ISO text;    *)
(*   - CURRENT_TIMESTAMP has a resolution of one second: clock counts the  *)
(*     distinct timestamps seen so far, and two statements executed at the *)
(*     same value of clock get the same timestamp;                         *)
(*   - a dictionary is a function whose DOMAIN is its set of keys.         *)
(***************************************************************************)
EXTENDS Integers, Sequences, FiniteSets, TLC

VARIABLES
    libros,        \* rows of table libros (modelo.py:44-60)
    seq,           \* sqlite_sequence of libros: the largest id ever assigned
    usuario,       \* rows of table usuario (modelo.py:63-73)
    csvfile,       \* the file at the path exportar_a_csv is given
    clock,         \* the wall clock, in timestamps
    form,          \* MainView.form_vars / form_widgets: the "new book" form
    table,         \* MainView.books_table: the rows displayed, top to bottom
    selection,     \* index of the selected row of table, 0 when none is
    year_var,      \* MainView.year_var, the year filter
    genre_var,     \* MainView.genre_var, the genre filter
    rating_var,    \* MainView.rating_var, the minimum-rating filter
    year_values,   \* the years year_combo offers
    genre_values,  \* the genres genre_combo offers
    dialogs,       \* the edit dialogs (Toplevel windows) and their widgets
    edit_vars,     \* MainView.edit_vars: the dialog whose widgets it holds
    user_info,     \* MainView.user_name and user_email, the profile labels
    last           \* the last call made, its arguments and what it did

dbVars == <<libros, seq, usuario, csvfile>>

viewVars == <<form, table, selection, year_var, genre_var, rating_var,
              year_values, genre_values, dialogs, edit_vars, user_info>>

vars == <<libros, seq, usuario, csvfile, clock, form, table, selection, year_var,
          genre_var, rating_var, year_values, genre_values, dialogs,
          edit_vars, user_info, last>>

(***************************************************************************)
(* Bounds of the model.                                                    *)
(***************************************************************************)
MaxId == 2       \* at most MaxId rows are ever inserted into libros
MaxClock == 1    \* the clock advances at most MaxClock times

(***************************************************************************)
(* The clock: datetime.now().date().isoformat(), datetime.now().year.      *)
(* The program is started on 2024-12-31 and every advance of the clock     *)
(* reaches a later day, so that both the date and the year change.         *)
(***************************************************************************)
DateOf(c) == IF c = 0 THEN 20241231 ELSE 20250100 + c

YearOf(c) == DateOf(c) \div 10000

(***************************************************************************)
(* dict.get(key, default)                                                  *)
(***************************************************************************)
Get(d, k, default) == IF k \in DOMAIN d THEN d[k] ELSE default

(***************************************************************************)
(* Python truthiness of a text given as a sequence of characters.          *)
(***************************************************************************)
Truthy(text) == text # <<>>

(***************************************************************************)
(* The columns of libros, in SELECT * order (modelo.py:167-171).           *)
(***************************************************************************)
column_names ==
    {"id", "titulo", "autor", "genero", "subgenero", "anio_lectura",
     "fecha_lectura", "calificacion", "paginas", "editorial",
     "comentario", "fecha_creacion", "fecha_actualizacion"}

MutableColumns ==
    {"titulo", "autor", "genero", "subgenero", "anio_lectura",
     "fecha_lectura", "calificacion", "paginas", "editorial", "comentario"}

RequiredKeys == {"titulo", "autor", "genero"}

(***************************************************************************)
(* The parameter tuple crear_libro and actualizar_libro build from         *)
(* libro_data at clock c: libro_data[k] for the three required keys (a     *)
(* KeyError when one is missing, see HasRequired), libro_data.get(k,       *)
(* default) for the others.                                                *)
(***************************************************************************)
HasRequired(libro_data) == RequiredKeys \subseteq DOMAIN libro_data

\* mutant of Params: the rating defaults to the form's 3 instead of 0
ParamsRatingThree(libro_data, c) ==
    [titulo        |-> libro_data["titulo"],
     autor         |-> libro_data["autor"],
     genero        |-> libro_data["genero"],
     subgenero     |-> Get(libro_data, "subgenero", ""),
     anio_lectura  |-> Get(libro_data, "anio_lectura", YearOf(c)),
     fecha_lectura |-> Get(libro_data, "fecha_lectura", DateOf(c)),
     calificacion  |-> Get(libro_data, "calificacion", 3),
     paginas       |-> Get(libro_data, "paginas", 0),
     editorial     |-> Get(libro_data, "editorial", ""),
     comentario    |-> Get(libro_data, "comentario", "")]

Params(libro_data, c) ==
    [titulo        |-> libro_data["titulo"],
     autor         |-> libro_data["autor"],
     genero        |-> libro_data["genero"],
     subgenero     |-> Get(libro_data, "subgenero", ""),
     anio_lectura  |-> Get(libro_data, "anio_lectura", YearOf(c)),
     fecha_lectura |-> Get(libro_data, "fecha_lectura", DateOf(c)),
     calificacion  |-> Get(libro_data, "calificacion", 0),
     paginas       |-> Get(libro_data, "paginas", 0),
     editorial     |-> Get(libro_data, "editorial", ""),
     comentario    |-> Get(libro_data, "comentario", "")]

(***************************************************************************)
(* INSERT INTO libros: the row gets the next AUTOINCREMENT id and both     *)
(* timestamp columns default to CURRENT_TIMESTAMP.                         *)
(***************************************************************************)
NewRow(id, p, c) ==
    [id                  |-> id,
     titulo              |-> p.titulo,
     autor               |-> p.autor,
     genero              |-> p.genero,
     subgenero           |-> p.subgenero,
     anio_lectura        |-> p.anio_lectura,
     fecha_lectura       |-> p.fecha_lectura,
     calificacion        |-> p.calificacion,
     paginas             |-> p.paginas,
     editorial           |-> p.editorial,
     comentario          |-> p.comentario,
     fecha_creacion      |-> c,
     fecha_actualizacion |-> c]

\* an insert that numbers every row 1
crear_libro_id_repetido(L, s, libro_data, c) ==
    [libros |-> L \cup {NewRow(1, Params(libro_data, c), c)},
     seq    |-> s + 1,
     id     |-> 1]

crear_libro(L, s, libro_data, c) ==
    [libros |-> L \cup {NewRow(s + 1, Params(libro_data, c), c)},
     seq    |-> s + 1,
     id     |-> s + 1]

(***************************************************************************)
(* SQLite's LIKE '%value%' on ASCII text: value occurs in text, letters    *)
(* compared without case.                                                  *)
(***************************************************************************)
Lower(ch) ==
    CASE ch = "A" -> "a"
      [] ch = "B" -> "b"
      [] ch = "C" -> "c"
      [] ch = "D" -> "d"
      [] ch = "X" -> "x"
      [] ch = "Y" -> "y"
      [] OTHER -> ch

Like(text, value) ==
    \E i \in 0..(Len(text) - Len(value)) :
        \A j \in 1..Len(value) : Lower(text[i + j]) = Lower(value[j])

(***************************************************************************)
(* The WHERE clause obtener_libros builds: one condition per recognised    *)
(* key of filtros, joined by AND; a key that is none of the five adds no   *)
(* condition.                                                              *)
(***************************************************************************)
\* mutant of Condition: the minimum rating is exclusive
ConditionStrictMin(key, value, b) ==
    CASE key = "anio_lectura"     -> b.anio_lectura = value
      [] key = "genero"           -> b.genero = value
      [] key = "calificacion_min" -> b.calificacion > value
      [] key = "calificacion_max" -> b.calificacion <= value
      [] key = "search"           -> Like(b.titulo, value) \/ Like(b.autor, value)
      [] OTHER                    -> TRUE

Condition(key, value, b) ==
    CASE key = "anio_lectura"     -> b.anio_lectura = value
      [] key = "genero"           -> b.genero = value
      [] key = "calificacion_min" -> b.calificacion >= value
      [] key = "calificacion_max" -> b.calificacion <= value
      [] key = "search"           -> Like(b.titulo, value) \/ Like(b.autor, value)
      [] OTHER                    -> TRUE

Where(filtros, b) == \A key \in DOMAIN filtros : Condition(key, filtros[key], b)

(***************************************************************************)
(* ORDER BY fecha_lectura DESC: every sequence of the rows of S in which   *)
(* fecha_lectura never increases.  SQL leaves the order of rows with equal *)
(* fecha_lectura open, so the result is a set of sequences.                *)
(***************************************************************************)
\* mutant of OrderByFechaDesc: ORDER BY fecha_lectura ASC
RECURSIVE OrderByFechaAsc(_)
OrderByFechaAsc(S) ==
    IF S = {} THEN {<<>>}
    ELSE UNION {{<<b>> \o t : t \in OrderByFechaAsc(S \ {b})} :
                b \in {x \in S : \A y \in S : x.fecha_lectura <= y.fecha_lectura}}

RECURSIVE OrderByFechaDesc(_)
OrderByFechaDesc(S) ==
    IF S = {} THEN {<<>>}
    ELSE UNION {{<<b>> \o t : t \in OrderByFechaDesc(S \ {b})} :
                b \in {x \in S : \A y \in S : x.fecha_lectura >= y.fecha_lectura}}

obtener_libros(L, filtros) == OrderByFechaDesc({b \in L : Where(filtros, b)})

(***************************************************************************)
(* UPDATE libros SET <ten columns>, fecha_actualizacion = CURRENT_TIMESTAMP *)
(* WHERE id = ?                                                            *)
(***************************************************************************)
\* mutant of UpdatedRow: the update also resets fecha_creacion
UpdatedRowResetsCreation(b, p, c) ==
    [id                  |-> b.id,
     titulo              |-> p.titulo,
     autor               |-> p.autor,
     genero              |-> p.genero,
     subgenero           |-> p.subgenero,
     anio_lectura        |-> p.anio_lectura,
     fecha_lectura       |-> p.fecha_lectura,
     calificacion        |-> p.calificacion,
     paginas             |-> p.paginas,
     editorial           |-> p.editorial,
     comentario          |-> p.comentario,
     fecha_creacion      |-> c,
     fecha_actualizacion |-> c]

\* mutant of UpdatedRow: the UPDATE leaves fecha_lectura as it is stored
UpdatedRowKeepsFechaLectura(b, p, c) ==
    [id                  |-> b.id,
     titulo              |-> p.titulo,
     autor               |-> p.autor,
     genero              |-> p.genero,
     subgenero           |-> p.subgenero,
     anio_lectura        |-> p.anio_lectura,
     fecha_lectura       |-> b.fecha_lectura,
     calificacion        |-> p.calificacion,
     paginas             |-> p.paginas,
     editorial           |-> p.editorial,
     comentario          |-> p.comentario,
     fecha_creacion      |-> b.fecha_creacion,
     fecha_actualizacion |-> c]

UpdatedRow(b, p, c) ==
    [id                  |-> b.id,
     titulo              |-> p.titulo,
     autor               |-> p.autor,
     genero              |-> p.genero,
     subgenero           |-> p.subgenero,
     anio_lectura        |-> p.anio_lectura,
     fecha_lectura       |-> p.fecha_lectura,
     calificacion        |-> p.calificacion,
     paginas             |-> p.paginas,
     editorial           |-> p.editorial,
     comentario          |-> p.comentario,
     fecha_creacion      |-> b.fecha_creacion,
     fecha_actualizacion |-> c]

\* mutant of actualizar_libro: the UPDATE has lost its WHERE clause
actualizar_libro_sin_where(L, libro_id, libro_data, c) ==
    {UpdatedRow(b, Params(libro_data, c), c) : b \in L}

actualizar_libro(L, libro_id, libro_data, c) ==
    {IF b.id = libro_id THEN UpdatedRow(b, Params(libro_data, c), c) ELSE b : b \in L}

\* the number of rows WHERE id = ? selects
RowCount(L, libro_id) == Cardinality({b \in L : b.id = libro_id})

(***************************************************************************)
(* DELETE FROM libros WHERE id = ?                                         *)
(***************************************************************************)
\* mutant of eliminar_libro: WHERE id <= ? instead of WHERE id = ?
eliminar_libro_hasta(L, libro_id) == {b \in L : b.id > libro_id}

eliminar_libro(L, libro_id) == {b \in L : b.id # libro_id}

(***************************************************************************)
(* Numbers as text: str(n) and int(text) on non-negative decimal numerals. *)
(* A text that is no numeral makes int raise ValueError.                   *)
(***************************************************************************)
Digits == <<"0", "1", "2", "3", "4", "5", "6", "7", "8", "9">>

IsDigit(ch) == \E d \in 1..10 : Digits[d] = ch

DigitVal(ch) == (CHOOSE d \in 1..10 : Digits[d] = ch) - 1

RECURSIVE Str(_)
Str(n) == IF n < 10 THEN <<Digits[n + 1]>>
          ELSE Str(n \div 10) \o <<Digits[(n % 10) + 1]>>

CanParseInt(text) == text # <<>> /\ \A i \in 1..Len(text) : IsDigit(text[i])

RECURSIVE ParseInt(_)
ParseInt(text) ==
    IF Len(text) = 1 THEN DigitVal(text[1])
    ELSE 10 * ParseInt(SubSeq(text, 1, Len(text) - 1)) + DigitVal(text[Len(text)])

(***************************************************************************)
(* The text '' bound to one of the INTEGER columns anio_lectura and        *)
(* paginas: SQLite cannot convert it and stores it as TEXT, a value that   *)
(* equals no integer and sorts after every integer.  It is written as a    *)
(* number larger than every integer of the model.                          *)
(***************************************************************************)
EmptyText == 99999999

StrValue(v) == IF v = EmptyText THEN <<>> ELSE Str(v)

(***************************************************************************)
(* Python truthiness of a stored anio_lectura: 0 and '' are false.         *)
(***************************************************************************)
TruthyValue(v) == v # 0 /\ v # EmptyText

(***************************************************************************)
(* The view (vista.py).                                                    *)
(***************************************************************************)
Todos == <<"T", "o", "d", "o", "s">>

Todas == <<"T", "o", "d", "a", "s">>

TableColumns ==
    {"id", "titulo", "autor", "genero", "subgenero", "anio_lectura",
     "calificacion", "paginas", "editorial"}

\* clear_form: every field '', then the year of today and a rating of 3.0
clear_form(c) ==
    [titulo       |-> <<>>,
     autor        |-> <<>>,
     genero       |-> "",
     subgenero    |-> "",
     anio_lectura |-> Str(YearOf(c)),
     calificacion |-> 3,
     paginas      |-> <<>>,
     editorial    |-> "",
     comentario   |-> ""]

\* populate_books_table: one item per book, holding the table's columns
populate_books_table(books) ==
    [i \in 1..Len(books) |-> [col \in TableColumns |-> books[i][col]]]

\* get_selected_book_id: the id column of the selected item, or None (0)
get_selected_book_id(tbl, sel) == IF sel = 0 THEN 0 ELSE tbl[sel].id

\* get_filters: the three comboboxes as a filter dictionary
get_filters(year, genre, rating) ==
    [key \in (IF year # <<>> /\ year # Todos THEN {"anio_lectura"} ELSE {})
         \cup (IF genre # "" /\ genre # "Todos" THEN {"genero"} ELSE {})
         \cup (IF rating # <<>> /\ rating # Todas THEN {"calificacion_min"} ELSE {})
     |-> CASE key = "anio_lectura"     -> ParseInt(year)
           [] key = "genero"           -> genre
           [] key = "calificacion_min" -> ParseInt(rating)]

\* mutant of RefreshBooksTable: the table keeps the filter of the comboboxes
RefreshBooksTableConFiltro(L, filters) ==
    /\ \E books \in obtener_libros(L, get_filters(year_var, genre_var, rating_var)) :
           table' = populate_books_table(books)
    /\ selection' = 0
    /\ year_values' = {b.anio_lectura : b \in {x \in L : TruthyValue(x.anio_lectura)}}
    /\ genre_values' = {b.genero : b \in {x \in L : x.genero # ""}}
    /\ year_var' = Todos
    /\ genre_var' = "Todos"
    /\ rating_var' = Todas

(***************************************************************************)
(* _refresh_books_table(filters): the table shows obtener_libros(filters)  *)
(* and loses its selection; the filter comboboxes are filled from all the  *)
(* books and reset to their first entry (populate_filters).                *)
(***************************************************************************)
RefreshBooksTable(L, filters) ==
    /\ \E books \in obtener_libros(L, filters) :
           table' = populate_books_table(books)
    /\ selection' = 0
    /\ year_values' = {b.anio_lectura : b \in {x \in L : TruthyValue(x.anio_lectura)}}
    /\ genre_values' = {b.genero : b \in {x \in L : x.genero # ""}}
    /\ year_var' = Todos
    /\ genre_var' = "Todos"
    /\ rating_var' = Todas

\* update_user_info: the labels show the name and the email
update_user_info(user_data) == <<user_data.nombre, user_data.email>>

(***************************************************************************)
(* The edit dialogs.  A closed slot holds no window.                       *)
(***************************************************************************)
MaxDialogs == 1

NoDialog == [open |-> FALSE, book_id |-> 0, widgets |-> <<>>]

(***************************************************************************)
(* What the last call was and did.                                         *)
(*   op      the method called                                             *)
(*   id      the id it was given, or the id it returned                    *)
(*   data    the dictionary it was given                                   *)
(*   filtros the filters it was given                                      *)
(*   ret     the sequence of books it returned                             *)
(*   rows    the number of rows its statement changed (cursor.rowcount)    *)
(*   err     the exception that left it, "" when it returned               *)
(*   calls   the repository methods called, in order, followed by the      *)
(*           exception the last of them raised, if it raised one           *)
(*   msgs    the message boxes shown, in order                             *)
(***************************************************************************)
Call(op, id, data, filtros, ret, rows, err, calls, msgs) ==
    [op |-> op, id |-> id, data |-> data, filtros |-> filtros, ret |-> ret,
     rows |-> rows, err |-> err, calls |-> calls, msgs |-> msgs]

\* no call of the coordinator or of a repository is under way
Idle == Call("", 0, <<>>, <<>>, <<>>, 0, "", <<>>, <<>>)

\* the file exportar_a_csv writes does not exist
NoFile == [exists |-> FALSE, header |-> <<>>, rows |-> <<>>]

(***************************************************************************)
(* The state when mainloop starts on a first run: _initialize_database has *)
(* created both tables and the default user, _load_initial_data has shown  *)
(* the (empty) table and cleared the form.                                 *)
(***************************************************************************)
DefaultUser ==
    [id                  |-> 1,
     nombre              |-> "Lector",
     email               |-> "lector@example.com",
     avatar              |-> "default_avatar.png",
     preferencias        |-> <<>>,
     fecha_creacion      |-> 0,
     fecha_actualizacion |-> 0]

Init ==
    /\ libros = {}
    /\ seq = 0
    /\ usuario = {DefaultUser}
    /\ csvfile = NoFile
    /\ clock = 0
    /\ form = clear_form(0)
    /\ table = <<>>
    /\ selection = 0
    /\ year_var = Todos
    /\ genre_var = "Todos"
    /\ rating_var = Todas
    /\ year_values = {}
    /\ genre_values = {}
    /\ dialogs = [d \in 1..MaxDialogs |-> NoDialog]
    /\ edit_vars = 0
    /\ user_info = update_user_info(DefaultUser)
    /\ last = Idle

(***************************************************************************)
(* Inputs of the repository calls.                                         *)
(***************************************************************************)
LibroDataInputs ==
    { [titulo |-> <<"A">>, autor |-> <<"X">>, genero |-> "Novela",
       subgenero |-> "s", anio_lectura |-> 2020, fecha_lectura |-> 20200105,
       calificacion |-> 4, paginas |-> 7, editorial |-> "e", comentario |-> "c"],
      [titulo |-> <<"B", "a">>, autor |-> <<"Y">>, genero |-> "Ensayo"],
      [titulo |-> <<"C">>, autor |-> <<"x", "A">>, genero |-> "Novela",
       anio_lectura |-> 2021, fecha_lectura |-> 20250101, calificacion |-> 3],
      [titulo |-> <<>>, autor |-> <<>>, genero |-> "Ensayo", calificacion |-> 5],
      [titulo |-> <<"D">>, autor |-> <<"X">>] }

FiltrosInputs ==
    { <<>>,
      [id |-> 1],
      [anio_lectura |-> 2021],
      [genero |-> "Novela", calificacion_min |-> 4],
      [calificacion_min |-> 3, calificacion_max |-> 4],
      [anio_lectura |-> 2020, genero |-> "Novela", calificacion_min |-> 4,
       calificacion_max |-> 4],
      [search |-> <<"a">>] }

Ids == 1..(MaxId + 1)

(***************************************************************************)
(* The repository called directly (LibroModel).                            *)
(***************************************************************************)
\* mutant of CrearLibro: the required keys are read with get(key, '')
CrearLibroConGet(libro_data) ==
    /\ seq < MaxId
    /\ LET filled == [k \in DOMAIN libro_data \cup RequiredKeys |->
                        IF k \in DOMAIN libro_data THEN libro_data[k]
                        ELSE IF k = "genero" THEN "" ELSE <<>>]
           r == crear_libro(libros, seq, filled, clock)
       IN  /\ libros' = r.libros
           /\ seq' = r.seq
           /\ last' = Call("crear_libro", r.id, libro_data, <<>>, <<>>, 1, "",
                           <<"crear_libro">>, <<>>)
    /\ UNCHANGED <<usuario, clock, csvfile, viewVars>>

CrearLibro(libro_data) ==
    /\ seq < MaxId
    /\ IF HasRequired(libro_data)
       THEN LET r == crear_libro(libros, seq, libro_data, clock) IN
            /\ libros' = r.libros
            /\ seq' = r.seq
            /\ last' = Call("crear_libro", r.id, libro_data, <<>>, <<>>, 1, "",
                            <<"crear_libro">>, <<>>)
       ELSE /\ UNCHANGED <<libros, seq>>
            /\ last' = Call("crear_libro", 0, libro_data, <<>>, <<>>, 0, "KeyError",
                            <<"crear_libro">>, <<>>)
    /\ UNCHANGED <<usuario, clock, csvfile, viewVars>>

ObtenerLibros(filtros) ==
    /\ \E ret \in obtener_libros(libros, filtros) :
           last' = Call("obtener_libros", 0, <<>>, filtros, ret, 0, "",
                        <<"obtener_libros">>, <<>>)
    /\ UNCHANGED <<dbVars, clock, viewVars>>

ActualizarLibro(libro_id, libro_data) ==
    /\ IF HasRequired(libro_data)
       THEN /\ libros' = actualizar_libro(libros, libro_id, libro_data, clock)
            /\ last' = Call("actualizar_libro", libro_id, libro_data, <<>>, <<>>,
                            RowCount(libros, libro_id), "",
                            <<"actualizar_libro">>, <<>>)
       ELSE /\ UNCHANGED libros
            /\ last' = Call("actualizar_libro", libro_id, libro_data, <<>>, <<>>, 0,
                            "KeyError", <<"actualizar_libro">>, <<>>)
    /\ UNCHANGED <<seq, usuario, clock, csvfile, viewVars>>

EliminarLibro(libro_id) ==
    /\ libros' = eliminar_libro(libros, libro_id)
    /\ last' = Call("eliminar_libro", libro_id, <<>>, <<>>, <<>>,
                    RowCount(libros, libro_id), "",
                    <<"eliminar_libro">>, <<>>)
    /\ UNCHANGED <<seq, usuario, clock, csvfile, viewVars>>

Tick ==
    /\ clock < MaxClock
    /\ clock' = clock + 1
    /\ last' = Idle
    /\ UNCHANGED <<dbVars, viewVars>>

Next ==
    \/ \E libro_data \in LibroDataInputs : CrearLibro(libro_data)
    \/ \E filtros \in FiltrosInputs : ObtenerLibros(filtros)
    \/ \E libro_id \in Ids, libro_data \in LibroDataInputs :
           ActualizarLibro(libro_id, libro_data)
    \/ \E libro_id \in Ids : EliminarLibro(libro_id)
    \/ Tick

Spec == Init /\ [][Next]_vars

(***************************************************************************)
(* The user repository (UsuarioModel).  A preferences dictionary is the    *)
(* sequence of its items <<key, value>> in insertion order; a key is       *)
(* <<"str", text>> or <<"int", n>>.  The JSON text stored in the column is *)
(* kept as the sequence of its members <<name, value>>, the name being     *)
(* the text between the quotes.                                            *)
(***************************************************************************)
\* json.dumps writes a key that is an int as the string of its digits
json_key(key) == IF key[1] = "int" THEN Str(key[2]) ELSE key[2]

json_dumps(prefs) == [i \in 1..Len(prefs) |-> <<json_key(prefs[i][1]), prefs[i][2]>>]

\* the members of a JSON object as json.loads keeps them: a repeated name
\* keeps its first place and takes the last value
RECURSIVE json_members(_)
json_members(text) ==
    IF text = <<>> THEN <<>>
    ELSE LET rest == json_members(SubSeq(text, 1, Len(text) - 1))
             m    == text[Len(text)]
         IN  IF \E i \in 1..Len(rest) : rest[i][1] = m[1]
             THEN [i \in 1..Len(rest) |-> IF rest[i][1] = m[1] THEN m ELSE rest[i]]
             ELSE Append(rest, m)

\* json.loads: every key of the dictionary is a str
json_loads(text) ==
    LET ms == json_members(text) IN
    [i \in 1..Len(ms) |-> <<(<<"str", ms[i][1]>>), ms[i][2]>>]

\* SELECT * FROM usuario LIMIT 1, preferencias decoded
obtener_usuario(U) ==
    LET u == CHOOSE x \in U : \A y \in U : x.id <= y.id IN
    [u EXCEPT !.preferencias = json_loads(u.preferencias)]

\* UPDATE usuario SET ... WHERE id = ?
actualizar_usuario(U, usuario_data, c) ==
    {IF u.id = usuario_data.id
     THEN [u EXCEPT !.nombre = usuario_data.nombre,
                    !.email = usuario_data.email,
                    !.avatar = Get(usuario_data, "avatar", "default_avatar.png"),
                    !.preferencias = json_dumps(Get(usuario_data, "preferencias", <<>>)),
                    !.fecha_actualizacion = c]
     ELSE u : u \in U}

(***************************************************************************)
(* The coordinator (MainController) driven by the user.                    *)
(***************************************************************************)
Message(type, message) == [type |-> type, message |-> message]

RequiredMsg == Message("error", "Titulo y autor son campos obligatorios")

SelectFirstMsg == Message("warning", "Por favor selecciona un libro primero")

RefreshCalls == <<"obtener_libros", "obtener_libros">>

\* get_form_data / the loop of _save_book_edit: the nine widgets as a
\* dictionary (the texts typed carry no surrounding blanks for strip()).
get_form_data(widgets) ==
    [titulo       |-> widgets.titulo,
     autor        |-> widgets.autor,
     genero       |-> widgets.genero,
     subgenero    |-> widgets.subgenero,
     anio_lectura |-> widgets.anio_lectura,
     calificacion |-> widgets.calificacion,
     paginas      |-> widgets.paginas,
     editorial    |-> widgets.editorial,
     comentario   |-> widgets.comentario]

\* a conversion whose fallback is 0 for the year too
CoerceIntFallbackZero(text, fallback) ==
    IF Truthy(text)
    THEN IF CanParseInt(text) THEN ParseInt(text) ELSE 0
    ELSE EmptyText

\* "Convertir tipos de datos": a non-empty year or page count is parsed,
\* with a fallback when int() raises; an empty one is left as it is.
CoerceInt(text, fallback) ==
    IF Truthy(text)
    THEN IF CanParseInt(text) THEN ParseInt(text) ELSE fallback
    ELSE EmptyText

Coerce(book_data, c) ==
    [book_data EXCEPT !.anio_lectura = CoerceInt(book_data.anio_lectura, YearOf(c)),
                      !.paginas = CoerceInt(book_data.paginas, 0)]

\* a validation that forgets the author
InvalidTitleOnly(book_data) == ~Truthy(book_data.titulo)

\* "if not book_data.get('titulo') or not book_data.get('autor')"
Invalid(book_data) == ~Truthy(book_data.titulo) \/ ~Truthy(book_data.autor)

(***************************************************************************)
(* What the user types into the form and into an edit dialog.              *)
(***************************************************************************)
FormInputs ==
    { [titulo |-> <<"A">>, autor |-> <<"X">>, genero |-> "Novela", subgenero |-> "s",
       anio_lectura |-> <<"2", "0", "2", "0">>, calificacion |-> 4,
       paginas |-> <<"7">>, editorial |-> "e", comentario |-> "c"],
      [titulo |-> <<"B">>, autor |-> <<"Y">>, genero |-> "Ensayo", subgenero |-> "",
       anio_lectura |-> <<>>, calificacion |-> 3,
       paginas |-> <<"x">>, editorial |-> "", comentario |-> ""],
      [titulo |-> <<"D">>, autor |-> <<"Y">>, genero |-> "Ensayo", subgenero |-> "",
       anio_lectura |-> <<"x">>, calificacion |-> 3,
       paginas |-> <<>>, editorial |-> "", comentario |-> ""],
      [titulo |-> <<>>, autor |-> <<"X">>, genero |-> "Novela", subgenero |-> "",
       anio_lectura |-> <<"2", "0", "2", "0">>, calificacion |-> 3,
       paginas |-> <<>>, editorial |-> "", comentario |-> ""] }

DialogInputs ==
    { [titulo |-> <<"C">>, autor |-> <<"X">>, genero |-> "Novela", subgenero |-> "",
       anio_lectura |-> <<"x">>, calificacion |-> 5,
       paginas |-> <<"y">>, editorial |-> "e", comentario |-> ""],
      [titulo |-> <<"C">>, autor |-> <<>>, genero |-> "Novela", subgenero |-> "",
       anio_lectura |-> <<"2", "0", "2", "0">>, calificacion |-> 5,
       paginas |-> <<"7">>, editorial |-> "e", comentario |-> ""] }

UserInputs ==
    { [nombre |-> "Ana", email |-> "ana@example.com"],
      [nombre |-> "", email |-> "ana@example.com"] }

TypeForm(typed) ==
    /\ form # typed
    /\ form' = typed
    /\ last' = Idle
    /\ UNCHANGED <<dbVars, clock, table, selection, year_var, genre_var, rating_var,
                   year_values, genre_values, dialogs, edit_vars, user_info>>

\* a click on a row of the table (selectmode 'browse', _show_table_menu)
SelectRow(k) ==
    /\ k \in 1..Len(table)
    /\ selection # k
    /\ selection' = k
    /\ last' = Idle
    /\ UNCHANGED <<dbVars, clock, form, table, year_var, genre_var, rating_var,
                   year_values, genre_values, dialogs, edit_vars, user_info>>

(***************************************************************************)
(* add_book                                                                *)
(***************************************************************************)
AddBook ==
    LET book_data == get_form_data(form) IN
    IF Invalid(book_data)
    THEN /\ last' = Call("add_book", 0, book_data, <<>>, <<>>, 0, "", <<>>,
                         <<RequiredMsg>>)
         /\ UNCHANGED <<dbVars, clock, viewVars>>
    ELSE /\ seq < MaxId
         /\ LET coerced == Coerce(book_data, clock)
                r       == crear_libro(libros, seq, coerced, clock)
            IN  /\ libros' = r.libros
                /\ seq' = r.seq
                /\ form' = clear_form(clock)
                /\ RefreshBooksTable(r.libros, <<>>)
                /\ last' = Call("add_book", r.id, coerced, <<>>, <<>>, 1, "",
                                <<"crear_libro">> \o RefreshCalls,
                                <<Message("info", "Libro agregado correctamente")>>)
         /\ UNCHANGED <<usuario, clock, csvfile, dialogs, edit_vars, user_info>>

(***************************************************************************)
(* "Editar Libro" of the context menu of row k: _show_table_menu selects   *)
(* the row under the pointer and the menu calls edit_book.                 *)
(* edit_book and show_book_edit_dialog: the dialog is filled from the      *)
(* first book obtener_libros({'id': book_id}) returns, and its Save button *)
(* is bound to that book's id.  The new window takes a free slot, and      *)
(* self.edit_vars is replaced by the widgets of the new window.            *)
(***************************************************************************)
show_book_edit_dialog(book_data) ==
    [open    |-> TRUE,
     book_id |-> book_data.id,
     widgets |-> [titulo       |-> book_data.titulo,
                  autor        |-> book_data.autor,
                  genero       |-> book_data.genero,
                  subgenero    |-> book_data.subgenero,
                  anio_lectura |-> StrValue(book_data.anio_lectura),
                  calificacion |-> book_data.calificacion,
                  paginas      |-> StrValue(book_data.paginas),
                  editorial    |-> book_data.editorial,
                  comentario   |-> book_data.comentario]]

FreeSlots == {d \in DOMAIN dialogs : ~dialogs[d].open}

EditBook(k) ==
    /\ k \in 1..Len(table)
    /\ selection' = k
    /\ LET book_id == get_selected_book_id(table, k) IN
       IF book_id = 0
       THEN /\ last' = Call("edit_book", 0, <<>>, <<>>, <<>>, 0, "", <<>>,
                            <<SelectFirstMsg>>)
            /\ UNCHANGED <<dbVars, clock, form, table, year_var, genre_var, rating_var,
                           year_values, genre_values, dialogs, edit_vars, user_info>>
       ELSE \E ret \in obtener_libros(libros, [id |-> book_id]) :
               IF ret = <<>>
               THEN /\ last' = Call("edit_book", book_id, <<>>, [id |-> book_id], ret, 0,
                                    "IndexError", <<"obtener_libros">>, <<>>)
                    /\ UNCHANGED <<dbVars, clock, form, table, year_var, genre_var,
                                   rating_var, year_values, genre_values, dialogs,
                                   edit_vars, user_info>>
               ELSE /\ FreeSlots # {}
                    /\ LET d == CHOOSE x \in FreeSlots : \A y \in FreeSlots : x <= y IN
                           /\ dialogs' = [dialogs EXCEPT ![d] = show_book_edit_dialog(ret[1])]
                           /\ edit_vars' = d
                    /\ last' = Call("edit_book", book_id, ret[1], [id |-> book_id], ret, 0,
                                    "", <<"obtener_libros">>, <<>>)
                    /\ UNCHANGED <<dbVars, clock, form, table, year_var, genre_var,
                                   rating_var, year_values, genre_values, user_info>>

\* the user edits the fields of the open dialog d
TypeDialog(d, typed) ==
    /\ dialogs[d].open
    /\ dialogs[d].widgets # typed
    /\ dialogs' = [dialogs EXCEPT ![d].widgets = typed]
    /\ last' = Idle
    /\ UNCHANGED <<dbVars, clock, form, table, selection, year_var, genre_var,
                   rating_var, year_values, genre_values, edit_vars, user_info>>

\* "Cancelar": dialog.destroy
CancelDialog(d) ==
    /\ dialogs[d].open
    /\ dialogs' = [dialogs EXCEPT ![d] = NoDialog]
    /\ last' = Idle
    /\ UNCHANGED <<dbVars, clock, form, table, selection, year_var, genre_var,
                   rating_var, year_values, genre_values, edit_vars, user_info>>

(***************************************************************************)
(* "Guardar Cambios" of dialog d: _save_book_edit(book_id, dialog) reads   *)
(* the widgets self.edit_vars holds, calls update_book and destroys the    *)
(* dialog.  Reading the Text widget of a destroyed window raises TclError, *)
(* which leaves _save_book_edit before update_book is called.              *)
(***************************************************************************)
SaveBookEdit(d) ==
    /\ dialogs[d].open
    /\ LET book_id == dialogs[d].book_id IN
       IF ~dialogs[edit_vars].open
       THEN /\ last' = Call("_save_book_edit", book_id, <<>>, <<>>, <<>>, 0, "TclError",
                            <<>>, <<>>)
            /\ UNCHANGED <<dbVars, clock, viewVars>>
       ELSE LET book_data == get_form_data(dialogs[edit_vars].widgets) IN
            /\ dialogs' = [dialogs EXCEPT ![d] = NoDialog]
            /\ IF Invalid(book_data)
               THEN /\ last' = Call("update_book", book_id, book_data, <<>>, <<>>, 0, "",
                                    <<>>, <<RequiredMsg>>)
                    /\ UNCHANGED <<dbVars, clock, form, table, selection, year_var,
                                   genre_var, rating_var, year_values, genre_values,
                                   edit_vars, user_info>>
               ELSE LET coerced == Coerce(book_data, clock) IN
                    /\ libros' = actualizar_libro(libros, book_id, coerced, clock)
                    /\ RefreshBooksTable(libros', <<>>)
                    /\ last' = Call("update_book", book_id, coerced, <<>>, <<>>,
                                    RowCount(libros, book_id), "",
                                    <<"actualizar_libro">> \o RefreshCalls,
                                    <<Message("info", "Libro actualizado correctamente")>>)
                    /\ UNCHANGED <<seq, usuario, clock, csvfile, form, edit_vars, user_info>>

(***************************************************************************)
(* "Eliminar Libro" of the context menu of row k: delete_book, with the    *)
(* answer the user gives to ask_confirmation.                              *)
(***************************************************************************)
DeleteBook(k, confirm) ==
    /\ k \in 1..Len(table)
    /\ LET book_id == get_selected_book_id(table, k) IN
       IF book_id = 0
       THEN /\ selection' = k
            /\ last' = Call("delete_book", 0, <<>>, <<>>, <<>>, 0, "", <<>>,
                            <<SelectFirstMsg>>)
            /\ UNCHANGED <<dbVars, clock, form, table, year_var, genre_var, rating_var,
                           year_values, genre_values, dialogs, edit_vars, user_info>>
       ELSE IF ~confirm
       THEN /\ selection' = k
            /\ last' = Call("delete_book", book_id, <<>>, <<>>, <<>>, 0, "", <<>>, <<>>)
            /\ UNCHANGED <<dbVars, clock, form, table, year_var, genre_var, rating_var,
                           year_values, genre_values, dialogs, edit_vars, user_info>>
       ELSE /\ libros' = eliminar_libro(libros, book_id)
            /\ RefreshBooksTable(libros', <<>>)
            /\ last' = Call("delete_book", book_id, <<>>, <<>>, <<>>,
                            RowCount(libros, book_id), "",
                            <<"eliminar_libro">> \o RefreshCalls,
                            <<Message("info", "Libro eliminado correctamente")>>)
            /\ UNCHANGED <<seq, usuario, clock, csvfile, form, dialogs, edit_vars, user_info>>

(***************************************************************************)
(* update_user, called by "Guardar" of the profile dialog with the name    *)
(* and the email typed there.                                              *)
(***************************************************************************)
\* an update_user that passes on the two fields of the dialog alone
UpdateUserSinMezcla(user_data) ==
    IF user_data.nombre = ""
    THEN /\ last' = Call("update_user", 0, user_data, <<>>, <<>>, 0, "", <<>>,
                         <<Message("error", "El nombre es obligatorio")>>)
         /\ UNCHANGED <<dbVars, clock, viewVars>>
    ELSE LET current_data == obtener_usuario(usuario)
             updated_data == [id |-> current_data.id, nombre |-> user_data.nombre,
                              email |-> user_data.email]
         IN  /\ usuario' = actualizar_usuario(usuario, updated_data, clock)
             /\ user_info' = update_user_info(updated_data)
             /\ last' = Call("update_user", updated_data.id, user_data, <<>>, <<>>, 1, "",
                             <<"obtener_usuario", "actualizar_usuario">>,
                             <<Message("info", "Perfil actualizado correctamente")>>)
             /\ UNCHANGED <<libros, seq, clock, csvfile, form, table, selection, year_var,
                            genre_var, rating_var, year_values, genre_values, dialogs,
                            edit_vars>>

UpdateUser(user_data) ==
    IF user_data.nombre = ""
    THEN /\ last' = Call("update_user", 0, user_data, <<>>, <<>>, 0, "", <<>>,
                         <<Message("error", "El nombre es obligatorio")>>)
         /\ UNCHANGED <<dbVars, clock, viewVars>>
    ELSE LET current_data == obtener_usuario(usuario)
             updated_data == [current_data EXCEPT !.nombre = user_data.nombre,
                                                  !.email = user_data.email]
         IN  /\ usuario' = actualizar_usuario(usuario, updated_data, clock)
             /\ user_info' = update_user_info(updated_data)
             /\ last' = Call("update_user", updated_data.id, user_data, <<>>, <<>>, 1, "",
                             <<"obtener_usuario", "actualizar_usuario">>,
                             <<Message("info", "Perfil actualizado correctamente")>>)
             /\ UNCHANGED <<libros, seq, clock, csvfile, form, table, selection, year_var,
                            genre_var, rating_var, year_values, genre_values, dialogs,
                            edit_vars>>

(***************************************************************************)
(* The filters: the user picks an entry of each combobox; filter_books     *)
(* and clear_filters.                                                      *)
(***************************************************************************)
RatingChoices == {Todas, <<"4">>}

SetFilters(year, genre, rating) ==
    /\ year \in {Todos} \cup {Str(y) : y \in year_values}
    /\ genre \in {"Todos"} \cup genre_values
    /\ rating \in RatingChoices
    /\ <<year, genre, rating>> # <<year_var, genre_var, rating_var>>
    /\ year_var' = year
    /\ genre_var' = genre
    /\ rating_var' = rating
    /\ last' = Idle
    /\ UNCHANGED <<dbVars, clock, form, table, selection, year_values, genre_values,
                   dialogs, edit_vars, user_info>>

FilterBooks ==
    LET filters == get_filters(year_var, genre_var, rating_var) IN
    /\ RefreshBooksTable(libros, filters)
    /\ last' = Call("filter_books", 0, <<>>, filters, <<>>, 0, "", RefreshCalls, <<>>)
    /\ UNCHANGED <<dbVars, clock, form, dialogs, edit_vars, user_info>>

ClearFilters ==
    /\ RefreshBooksTable(libros, <<>>)
    /\ last' = Call("clear_filters", 0, <<>>, <<>>, <<>>, 0, "", RefreshCalls, <<>>)
    /\ UNCHANGED <<dbVars, clock, form, dialogs, edit_vars, user_info>>

AppNext ==
    \/ \E typed \in FormInputs : TypeForm(typed)
    \/ AddBook
    \/ \E k \in 1..MaxId : EditBook(k)
    \/ \E d \in 1..MaxDialogs, typed \in DialogInputs : TypeDialog(d, typed)
    \/ \E d \in 1..MaxDialogs : CancelDialog(d)
    \/ \E d \in 1..MaxDialogs : SaveBookEdit(d)
    \/ \E k \in 1..MaxId, confirm \in BOOLEAN : DeleteBook(k, confirm)
    \/ \E user_data \in UserInputs : UpdateUser(user_data)
    \/ Tick

AppSpec == Init /\ [][AppNext]_vars

(***************************************************************************)
(* An intent of the coordinator invoked while the store cannot be used     *)
(* (database locked or unreadable): the first repository call of the       *)
(* intent raises sqlite3.Error from execute_query.  add_book, update_book, *)
(* delete_book, export_to_csv and update_user make the call inside         *)
(* try/except and show "No se pudo ..."; filter_books, clear_filters,      *)
(* show_book_details, edit_book, generate_report, show_stats and edit_user *)
(* have no try, and the exception leaves the coordinator.                  *)
(***************************************************************************)
StoreError == "sqlite3.Error"

Intents ==
    {"add_book", "filter_books", "clear_filters", "show_book_details", "edit_book",
     "update_book", "delete_book", "generate_report", "export_to_csv", "show_stats",
     "edit_user", "update_user"}

\* the intents of the context menu of a row
RowIntents == {"show_book_details", "edit_book", "delete_book", "generate_report"}

\* the first repository method an intent calls
FirstCall(intent) ==
    CASE intent = "add_book"          -> "crear_libro"
      [] intent = "filter_books"      -> "obtener_libros"
      [] intent = "clear_filters"     -> "obtener_libros"
      [] intent = "show_book_details" -> "generar_informe_lectura"
      [] intent = "edit_book"         -> "obtener_libros"
      [] intent = "update_book"       -> "actualizar_libro"
      [] intent = "delete_book"       -> "eliminar_libro"
      [] intent = "generate_report"   -> "generar_informe_lectura"
      [] intent = "export_to_csv"     -> "exportar_a_csv"
      [] intent = "show_stats"        -> "obtener_estadisticas"
      [] intent = "edit_user"         -> "obtener_usuario"
      [] intent = "update_user"       -> "obtener_usuario"

\* the message of the except clause of an intent, <<>> when it has none
ExceptMsgs(intent) ==
    CASE intent = "add_book"      -> <<Message("error", "No se pudo agregar el libro")>>
      [] intent = "update_book"   -> <<Message("error", "No se pudo actualizar el libro")>>
      [] intent = "delete_book"   -> <<Message("error", "No se pudo eliminar el libro")>>
      [] intent = "export_to_csv" -> <<Message("error", "No se pudo exportar los libros")>>
      [] intent = "update_user"   -> <<Message("error", "No se pudo actualizar el perfil")>>
      [] OTHER                    -> <<>>

\* what the intent does before its first repository call
ReachesFirstCall(intent, k) ==
    CASE intent = "add_book"    -> k = 0 /\ ~Invalid(get_form_data(form))
      [] intent = "update_book" ->
            /\ k \in 1..MaxDialogs
            /\ dialogs[k].open
            /\ dialogs[edit_vars].open
            /\ ~Invalid(get_form_data(dialogs[edit_vars].widgets))
      [] intent \in RowIntents  ->
            k \in 1..Len(table) /\ get_selected_book_id(table, k) # 0
      [] OTHER                  -> k = 0

IntentRaises(intent, k) ==
    /\ ReachesFirstCall(intent, k)
    /\ selection' = IF intent \in RowIntents THEN k ELSE selection
    /\ dialogs' = IF intent = "update_book"
                  THEN [dialogs EXCEPT ![k] = NoDialog]
                  ELSE dialogs
    /\ last' = Call(intent, 0, <<>>, <<>>, <<>>, 0,
                    IF ExceptMsgs(intent) = <<>> THEN StoreError ELSE "",
                    <<FirstCall(intent), StoreError>>,
                    ExceptMsgs(intent))
    /\ UNCHANGED <<dbVars, clock, form, table, year_var, genre_var, rating_var,
                   year_values, genre_values, edit_vars, user_info>>

FailNext ==
    \/ \E typed \in FormInputs : TypeForm(typed)
    \/ AddBook
    \/ \E k \in 1..MaxId : EditBook(k)
    \/ \E intent \in Intents, k \in 0..MaxId : IntentRaises(intent, k)

FailSpec == Init /\ [][FailNext]_vars

(***************************************************************************)
(* The store is opened again (DatabaseManager() on an existing file) and   *)
(* the user repository is called directly.                                 *)
(***************************************************************************)
\* a start that inserts the default user without counting the rows
initialize_database_sin_contar(U, c) ==
    U \cup {[DefaultUser EXCEPT !.id = Cardinality(U) + 1,
                                !.fecha_creacion = c,
                                !.fecha_actualizacion = c]}

\* CREATE TABLE IF NOT EXISTS leaves the tables alone; the default user is
\* inserted when SELECT COUNT FROM usuario gives 0
_initialize_database(U, c) ==
    IF Cardinality(U) = 0
    THEN {[DefaultUser EXCEPT !.fecha_creacion = c, !.fecha_actualizacion = c]}
    ELSE U

InitializeDatabase ==
    /\ usuario' = _initialize_database(usuario, clock)
    /\ last' = Call("_initialize_database", 0, <<>>, <<>>, <<>>, 0, "", <<>>, <<>>)
    /\ UNCHANGED <<libros, seq, clock, csvfile, viewVars>>

UsuarioKeys == {"nombre", "email", "id"}

UsuarioDataInputs ==
    { [id |-> 1, nombre |-> "Cy", email |-> "cy@example.com", avatar |-> "a.png",
       preferencias |-> << <<(<<"str", <<"t">>>>), "dark">> >>],
      [id |-> 1, nombre |-> "Ana", email |-> "ana@example.com",
       preferencias |-> << <<(<<"int", 1>>), "a">> >>],
      [id |-> 1, nombre |-> "Bo", email |-> ""],
      [id |-> 2, nombre |-> "Bo", email |-> "bo@example.com"],
      [id |-> 1, email |-> "bo@example.com"] }

ActualizarUsuario(usuario_data) ==
    /\ IF UsuarioKeys \subseteq DOMAIN usuario_data
       THEN /\ usuario' = actualizar_usuario(usuario, usuario_data, clock)
            /\ last' = Call("actualizar_usuario", usuario_data.id, usuario_data, <<>>,
                            <<>>, Cardinality({u \in usuario : u.id = usuario_data.id}),
                            "", <<"actualizar_usuario">>, <<>>)
       ELSE /\ UNCHANGED usuario
            /\ last' = Call("actualizar_usuario", 0, usuario_data, <<>>, <<>>, 0,
                            "KeyError", <<"actualizar_usuario">>, <<>>)
    /\ UNCHANGED <<libros, seq, clock, csvfile, viewVars>>

ObtenerUsuario ==
    /\ usuario # {}
    /\ last' = Call("obtener_usuario", 0, <<>>, <<>>, <<obtener_usuario(usuario)>>, 0, "",
                    <<"obtener_usuario">>, <<>>)
    /\ UNCHANGED <<dbVars, clock, viewVars>>

UserNext ==
    \/ InitializeDatabase
    \/ \E usuario_data \in UsuarioDataInputs : ActualizarUsuario(usuario_data)
    \/ ObtenerUsuario
    \/ \E user_data \in UserInputs : UpdateUser(user_data)
    \/ \E libro_data \in LibroDataInputs : CrearLibro(libro_data)
    \/ \E libro_id \in Ids : EliminarLibro(libro_id)
    \/ Tick

UserSpec == Init /\ [][UserNext]_vars

(***************************************************************************)
(* obtener_estadisticas.  AVG(calificacion) is kept as the fraction        *)
(* num/den; a group is the pair <<value, COUNT>>.  Rows of equal count     *)
(* come in any order out of ORDER BY count DESC.                           *)
(***************************************************************************)
RECURSIVE SumCalificacion(_)
SumCalificacion(L) ==
    IF L = {} THEN 0
    ELSE LET b == CHOOSE x \in L : TRUE IN b.calificacion + SumCalificacion(L \ {b})

\* an average that keeps the whole part only
AvgTruncated(L) ==
    IF L = {} THEN [num |-> 0, den |-> 1]
    ELSE [num |-> SumCalificacion(L) \div Cardinality(L), den |-> 1]

\* SELECT AVG(calificacion) FROM libros, then "or 0"
Avg(L) ==
    IF L = {} \/ SumCalificacion(L) = 0 THEN [num |-> 0, den |-> 1]
    ELSE [num |-> SumCalificacion(L), den |-> Cardinality(L)]

\* COUNT of the group of rows whose column col holds value
GroupCount(L, col, value) == Cardinality({b \in L : b[col] = value})

\* ORDER BY anio_lectura ASC
RECURSIVE OrderByAnioAsc(_, _)
OrderByAnioAsc(Y, L) ==
    IF Y = {} THEN <<>>
    ELSE LET y == CHOOSE x \in Y : \A z \in Y : x <= z IN
         <<(<<y, GroupCount(L, "anio_lectura", y)>>)>> \o OrderByAnioAsc(Y \ {y}, L)

\* GROUP BY anio_lectura ORDER BY anio_lectura DESC
RECURSIVE OrderByAnioDesc(_, _)
OrderByAnioDesc(Y, L) ==
    IF Y = {} THEN <<>>
    ELSE LET y == CHOOSE x \in Y : \A z \in Y : x >= z IN
         <<(<<y, GroupCount(L, "anio_lectura", y)>>)>> \o OrderByAnioDesc(Y \ {y}, L)

\* ORDER BY count ASC
RECURSIVE OrderByCountAsc(_, _)
OrderByCountAsc(G, L) ==
    IF G = {} THEN {<<>>}
    ELSE UNION {{<<(<<g, GroupCount(L, "genero", g)>>)>> \o t :
                    t \in OrderByCountAsc(G \ {g}, L)} :
                g \in {x \in G : \A y \in G :
                          GroupCount(L, "genero", x) <= GroupCount(L, "genero", y)}}

\* GROUP BY genero ORDER BY count DESC
RECURSIVE OrderByCountDesc(_, _)
OrderByCountDesc(G, L) ==
    IF G = {} THEN {<<>>}
    ELSE UNION {{<<(<<g, GroupCount(L, "genero", g)>>)>> \o t :
                    t \in OrderByCountDesc(G \ {g}, L)} :
                g \in {x \in G : \A y \in G :
                          GroupCount(L, "genero", x) >= GroupCount(L, "genero", y)}}

\* LIMIT 5
GenreLimit == 5

Limit(rows, n) == SubSeq(rows, 1, IF Len(rows) < n THEN Len(rows) ELSE n)

obtener_estadisticas(L) ==
    {[total_libros          |-> Cardinality(L),
      libros_por_anio       |-> OrderByAnioDesc({b.anio_lectura : b \in L}, L),
      promedio_calificacion |-> Avg(L),
      generos_populares     |-> Limit(rows, GenreLimit)] :
        rows \in OrderByCountDesc({b.genero : b \in L}, L)}

ObtenerEstadisticas ==
    /\ \E stats \in obtener_estadisticas(libros) :
          last' = Call("obtener_estadisticas", 0, <<>>, <<>>, <<stats>>, 0, "",
                       <<"obtener_estadisticas">>, <<>>)
    /\ UNCHANGED <<dbVars, clock, viewVars>>

StatsNext ==
    \/ \E libro_data \in LibroDataInputs : CrearLibro(libro_data)
    \/ \E libro_id \in Ids, libro_data \in LibroDataInputs :
          ActualizarLibro(libro_id, libro_data)
    \/ \E libro_id \in Ids : EliminarLibro(libro_id)
    \/ ObtenerEstadisticas
    \/ Tick

StatsSpec == Init /\ [][StatsNext]_vars

(***************************************************************************)
(* obtener_estadisticas on a store of up to MaxBooks books of six genres.  *)
(* The books were created with the required fields alone, one after the    *)
(* other; as the statistics count the rows of each genre, the stores are   *)
(* taken with their genres in the order of GenreSeq.                       *)
(***************************************************************************)
MaxBooks == 7

GenreSeq == <<"Novela", "Ensayo", "Poesia", "Terror", "Historia", "Ciencia">>

GenreStore(f, n) ==
    {NewRow(i, Params([titulo |-> <<"A">>, autor |-> <<"X">>,
                       genero |-> GenreSeq[f[i]]], 0), 0) : i \in 1..n}

GenreStores ==
    UNION {{GenreStore(f, n) :
               f \in {g \in [1..n -> 1..Len(GenreSeq)] :
                         \A i \in 1..(n - 1) : g[i] <= g[i + 1]}} :
           n \in 0..MaxBooks}

GenreInit ==
    /\ libros \in GenreStores
    /\ seq = Cardinality(libros)
    /\ usuario = {DefaultUser}
    /\ csvfile = NoFile
    /\ clock = 0
    /\ form = clear_form(0)
    /\ table = <<>>
    /\ selection = 0
    /\ year_var = Todos
    /\ genre_var = "Todos"
    /\ rating_var = Todas
    /\ year_values = {}
    /\ genre_values = {}
    /\ dialogs = [d \in 1..MaxDialogs |-> NoDialog]
    /\ edit_vars = 0
    /\ user_info = update_user_info(DefaultUser)
    /\ last = Idle

GenreNext == ObtenerEstadisticas

GenreSpec == GenreInit /\ [][GenreNext]_vars

(***************************************************************************)
(* The report repository (InformeModel).  generar_informe_lectura selects  *)
(* the row by id and adds the total and the average of a fresh             *)
(* obtener_estadisticas; {} when no row has the id.                        *)
(***************************************************************************)
\* a report whose average is the rating of the book itself
generar_informe_lectura_propio(L, libro_id) ==
    IF {b \in L : b.id = libro_id} = {} THEN {<<>>}
    ELSE {[k \in column_names \cup {"total_libros_leidos", "promedio_calificacion_global"} |->
             CASE k = "total_libros_leidos"          -> stats.total_libros
               [] k = "promedio_calificacion_global" -> [num |-> b.calificacion, den |-> 1]
               [] OTHER                              -> b[k]] :
          b \in {x \in L : x.id = libro_id}, stats \in obtener_estadisticas(L)}

generar_informe_lectura(L, libro_id) ==
    IF {b \in L : b.id = libro_id} = {} THEN {<<>>}
    ELSE {[k \in column_names \cup {"total_libros_leidos", "promedio_calificacion_global"} |->
             CASE k = "total_libros_leidos"          -> stats.total_libros
               [] k = "promedio_calificacion_global" -> stats.promedio_calificacion
               [] OTHER                              -> b[k]] :
          b \in {x \in L : x.id = libro_id}, stats \in obtener_estadisticas(L)}

GenerarInformeLectura(libro_id) ==
    /\ \E informe \in generar_informe_lectura(libros, libro_id) :
          last' = Call("generar_informe_lectura", libro_id, <<>>, <<>>, <<informe>>, 0, "",
                       <<"generar_informe_lectura">>, <<>>)
    /\ UNCHANGED <<dbVars, clock, viewVars>>

ReportNext ==
    \/ \E libro_data \in LibroDataInputs : CrearLibro(libro_data)
    \/ \E libro_id \in Ids, libro_data \in LibroDataInputs :
          ActualizarLibro(libro_id, libro_data)
    \/ \E libro_id \in Ids : EliminarLibro(libro_id)
    \/ \E libro_id \in Ids : GenerarInformeLectura(libro_id)
    \/ Tick

ReportSpec == Init /\ [][ReportNext]_vars

(***************************************************************************)
(* LibroModel.exportar_a_csv (modelo.py:248-263).  libros[0].keys() are    *)
(* the columns in SELECT * order; csv.DictWriter writes one header row and *)
(* then one row for each dictionary, its cells in the order of fieldnames. *)
(* open(file_path, 'w') creates the file or truncates the one that exists. *)
(***************************************************************************)
fieldnames ==
    <<"id", "titulo", "autor", "genero", "subgenero", "anio_lectura",
      "fecha_lectura", "calificacion", "paginas", "editorial",
      "comentario", "fecha_creacion", "fecha_actualizacion">>

\* the cells DictWriter writes for the dictionary b
writerow(b) == [i \in 1..Len(fieldnames) |-> b[fieldnames[i]]]

\* mutant of exportar_a_csv: the file is opened before the result is tested
exportar_a_csv_abre_antes(L, file, filtros) ==
    {IF ret = <<>>
     THEN [ret |-> FALSE, file |-> [exists |-> TRUE, header |-> <<>>, rows |-> <<>>]]
     ELSE [ret  |-> TRUE,
           file |-> [exists |-> TRUE,
                     header |-> fieldnames,
                     rows   |-> [i \in 1..Len(ret) |-> writerow(ret[i])]]] :
     ret \in obtener_libros(L, filtros)}

exportar_a_csv(L, file, filtros) ==
    {IF ret = <<>>
     THEN [ret |-> FALSE, file |-> file]
     ELSE [ret  |-> TRUE,
           file |-> [exists |-> TRUE,
                     header |-> fieldnames,
                     rows   |-> [i \in 1..Len(ret) |-> writerow(ret[i])]]] :
     ret \in obtener_libros(L, filtros)}

ExportarACsv(filtros) ==
    /\ \E r \in exportar_a_csv(libros, csvfile, filtros) :
           /\ csvfile' = r.file
           /\ last' = Call("exportar_a_csv", 0, <<>>, filtros, <<r.ret>>, 0, "",
                           <<"obtener_libros">>, <<>>)
    /\ UNCHANGED <<libros, seq, usuario, clock, viewVars>>

ExportNext ==
    \/ \E libro_data \in LibroDataInputs : CrearLibro(libro_data)
    \/ \E libro_id \in Ids : EliminarLibro(libro_id)
    \/ \E filtros \in FiltrosInputs : ExportarACsv(filtros)

ExportSpec == Init /\ [][ExportNext]_vars

(***************************************************************************)
(* crear_libro on dictionaries that lack required keys: params reads       *)
(* libro_data['titulo'], libro_data['autor'] and libro_data['genero']      *)
(* (modelo.py:114-116), each a KeyError when the key is absent, before the *)
(* INSERT is executed.                                                     *)
(***************************************************************************)
CompleteInput ==
    [titulo |-> <<"A">>, autor |-> <<"X">>, genero |-> "Novela",
     subgenero |-> "s", anio_lectura |-> 2020, fecha_lectura |-> 20200105,
     calificacion |-> 4, paginas |-> 7, editorial |-> "e", comentario |-> "c"]

\* CompleteInput without the keys of every non-empty set of required keys
IncompleteInputs ==
    {[k \in (DOMAIN CompleteInput) \ K |-> CompleteInput[k]] :
     K \in (SUBSET RequiredKeys) \ {{}}}

CreateNext ==
    \/ \E libro_data \in LibroDataInputs \cup IncompleteInputs : CrearLibro(libro_data)
    \/ \E libro_id \in Ids : EliminarLibro(libro_id)
    \/ Tick

CreateSpec == Init /\ [][CreateNext]_vars

(***************************************************************************)
(* export_to_csv (controlador.py:243-272): the filters are read from the   *)
(* comboboxes as they are now; the user chooses a path or cancels the file *)
(* dialog (get_save_path returns '').                                      *)
(***************************************************************************)
ExportedMsg == Message("info", "Libros exportados correctamente a file_path")

NothingToExportMsg ==
    Message("warning", "No hay libros para exportar con los filtros actuales")

ExportToCsv(chosen) ==
    LET filters == get_filters(year_var, genre_var, rating_var) IN
    /\ IF chosen
       THEN \E r \in exportar_a_csv(libros, csvfile, filters) :
                /\ csvfile' = r.file
                /\ last' = Call("export_to_csv", 0, <<>>, filters, <<r.ret>>, 0, "",
                                <<"exportar_a_csv">>,
                                <<IF r.ret THEN ExportedMsg ELSE NothingToExportMsg>>)
       ELSE /\ UNCHANGED csvfile
            /\ last' = Call("export_to_csv", 0, <<>>, filters, <<>>, 0, "", <<>>, <<>>)
    /\ UNCHANGED <<libros, seq, usuario, clock, viewVars>>

(***************************************************************************)
(* The main window without its dialogs: the form, the filter bar and the   *)
(* export button.                                                          *)
(***************************************************************************)
FilterNext ==
    \/ \E typed \in FormInputs : TypeForm(typed)
    \/ AddBook
    \/ \E year \in {Todos} \cup {Str(y) : y \in year_values},
          genre \in {"Todos"} \cup genre_values,
          rating \in RatingChoices : SetFilters(year, genre, rating)
    \/ FilterBooks
    \/ ClearFilters
    \/ \E chosen \in BOOLEAN : ExportToCsv(chosen)

FilterSpec == Init /\ [][FilterNext]_vars

(***************************************************************************)
(* The main window with its filter bar, its context menu and one edit      *)
(* dialog: intents that write the store, after filters that narrow what    *)
(* the table shows.                                                        *)
(***************************************************************************)
TableNext ==
    \/ \E typed \in FormInputs : TypeForm(typed)
    \/ AddBook
    \/ \E year \in {Todos} \cup {Str(y) : y \in year_values},
          genre \in {"Todos"} \cup genre_values,
          rating \in RatingChoices : SetFilters(year, genre, rating)
    \/ FilterBooks
    \/ \E k \in 1..MaxId : EditBook(k)
    \/ \E d \in 1..MaxDialogs, typed \in DialogInputs : TypeDialog(d, typed)
    \/ \E d \in 1..MaxDialogs : SaveBookEdit(d)
    \/ \E k \in 1..MaxId, confirm \in BOOLEAN : DeleteBook(k, confirm)

TableSpec == Init /\ [][TableNext]_vars

(***************************************************************************)
(* Several edit dialogs at once: edit_book opens a new Toplevel each time  *)
(* it is called and nothing closes the ones already open (vista.py:        *)
(* 704-713).  The main window with its form, its context menu and up to    *)
(* MaxWindows edit dialogs.                                                *)
(***************************************************************************)
MaxWindows == 2

DialogInit ==
    /\ libros = {}
    /\ seq = 0
    /\ usuario = {DefaultUser}
    /\ csvfile = NoFile
    /\ clock = 0
    /\ form = clear_form(0)
    /\ table = <<>>
    /\ selection = 0
    /\ year_var = Todos
    /\ genre_var = "Todos"
    /\ rating_var = Todas
    /\ year_values = {}
    /\ genre_values = {}
    /\ dialogs = [d \in 1..MaxWindows |-> NoDialog]
    /\ edit_vars = 0
    /\ user_info = update_user_info(DefaultUser)
    /\ last = Idle

DialogNext ==
    \/ \E typed \in FormInputs : TypeForm(typed)
    \/ AddBook
    \/ \E k \in 1..MaxId : EditBook(k)
    \/ \E d \in 1..MaxWindows, typed \in DialogInputs : TypeDialog(d, typed)
    \/ \E d \in 1..MaxWindows : CancelDialog(d)
    \/ \E d \in 1..MaxWindows : SaveBookEdit(d)

DialogSpec == DialogInit /\ [][DialogNext]_vars

(***************************************************************************)
(* Updates through the edit dialog (update_book) and by direct calls of    *)
(* actualizar_libro with dictionaries that leave optional keys out.  The   *)
(* books are stored by direct calls of crear_libro and come into the table *)
(* with clear_filters.                                                     *)
(***************************************************************************)
UpdateInputs ==
    { CompleteInput,
      [titulo |-> <<"B", "a">>, autor |-> <<"Y">>, genero |-> "Ensayo"],
      [titulo |-> <<"D">>, autor |-> <<"X">>] }

UpdateNext ==
    \/ \E libro_data \in UpdateInputs : CrearLibro(libro_data)
    \/ ClearFilters
    \/ \E k \in 1..MaxId : EditBook(k)
    \/ \E d \in 1..MaxDialogs, typed \in DialogInputs : TypeDialog(d, typed)
    \/ \E d \in 1..MaxDialogs : SaveBookEdit(d)
    \/ \E libro_id \in Ids, libro_data \in UpdateInputs :
          ActualizarLibro(libro_id, libro_data)
    \/ Tick

UpdateSpec == Init /\ [][UpdateNext]_vars

(***************************************************************************)
(*                              PROPERTIES                                 *)
(***************************************************************************)
RetSet == {last.ret[k] : k \in 1..Len(last.ret)}

Stored(L, libro_id) == \E b \in L : b.id = libro_id

(***************************************************************************)
(* C1: obtener_libros({'id': i}) returns exactly the stored books whose id *)
(* is i: one book when i is stored, none when no row has id i.             *)
(***************************************************************************)
C1_IdFilterSelectsThatBook ==
    (last.op = "obtener_libros" /\ "id" \in DOMAIN last.filtros) =>
        /\ RetSet = {b \in libros : b.id = last.filtros["id"]}
        /\ Len(last.ret) = RowCount(libros, last.filtros["id"])

(***************************************************************************)
(* C3: after crear_libro(fields) with the three required keys returned id  *)
(* i, exactly one row has id i, it holds the supplied values and the       *)
(* documented default of every omitted optional field, and the rows stored *)
(* before are unchanged.                                                   *)
(***************************************************************************)
C3_Default(k, c) ==
    CASE k = "subgenero"     -> ""
      [] k = "anio_lectura"  -> DateOf(c) \div 10000
      [] k = "fecha_lectura" -> DateOf(c)
      [] k = "calificacion"  -> 0
      [] k = "paginas"       -> 0
      [] k = "editorial"     -> ""
      [] k = "comentario"    -> ""

C3_CreateInsertsTheRow ==
    [][(last'.op = "crear_libro" /\ last'.err = "") =>
        LET d   == last'.data
            new == {b \in libros' : b.id = last'.id}
        IN  /\ Cardinality(new) = 1
            /\ \A b \in new : \A k \in MutableColumns :
                   b[k] = IF k \in DOMAIN d THEN d[k] ELSE C3_Default(k, clock)
            /\ ~Stored(libros, last'.id)
            /\ libros' \ new = libros]_vars

C3_Witness ==
    /\ last.op = "crear_libro"
    /\ last.err = ""
    /\ DOMAIN last.data = RequiredKeys
    /\ clock > 0
    /\ Cardinality(libros) >= 2
    /\ \E b \in libros : b.id = last.id /\ b.anio_lectura = 2025 /\ b.calificacion = 0

(***************************************************************************)
(* C4: actualizar_libro(i, fields) on a stored id i puts the supplied      *)
(* values into the mutable columns of row i (all ten when all ten are      *)
(* supplied), a following list shows the row so changed, and the id and    *)
(* the creation timestamp of row i and all other rows stay as they were.   *)
(***************************************************************************)
C4_UpdateReplacesTheRow ==
    [][(last'.op = "actualizar_libro" /\ last'.err = "" /\ Stored(libros, last'.id)) =>
        LET d   == last'.data
            i   == last'.id
            old == CHOOSE b \in libros : b.id = i
            new == {b \in libros' : b.id = i}
        IN  /\ Cardinality(new) = 1
            /\ \A b \in new :
                   /\ \A k \in MutableColumns \cap DOMAIN d : b[k] = d[k]
                   /\ b.fecha_creacion = old.fecha_creacion
            /\ \A ret \in obtener_libros(libros', <<>>) :
                   \E k \in 1..Len(ret) : ret[k] \in new
            /\ {b \in libros' : b.id # i} = {b \in libros : b.id # i}]_vars

C4_Witness ==
    /\ last.op = "actualizar_libro"
    /\ last.rows = 1
    /\ MutableColumns \subseteq DOMAIN last.data
    /\ Cardinality(libros) >= 2
    /\ \E b \in libros :
           /\ b.id = last.id
           /\ b.fecha_creacion < b.fecha_actualizacion
           /\ \A k \in MutableColumns : b[k] = last.data[k]

(***************************************************************************)
(* C5: eliminar_libro(i) on a stored id i removes the row with id i and    *)
(* only that row.                                                          *)
(***************************************************************************)
C5_DeleteRemovesOnlyThatRow ==
    [][(last'.op = "eliminar_libro" /\ Stored(libros, last'.id)) =>
        /\ ~Stored(libros', last'.id)
        /\ libros' = {b \in libros : b.id # last'.id}
        /\ Cardinality(libros') = Cardinality(libros) - 1]_vars

C5_Witness ==
    /\ last.op = "eliminar_libro"
    /\ last.rows = 1
    /\ libros # {}
    /\ ~Stored(libros, last.id)

(***************************************************************************)
(* C6: actualizar_libro and eliminar_libro with an id no row has change no *)
(* row (zero rows affected, the table is as before) and, given well-formed *)
(* fields, raise no error.                                                 *)
(***************************************************************************)
C6_UnknownIdIsNoOp ==
    [][(last'.op \in {"actualizar_libro", "eliminar_libro"} /\ ~Stored(libros, last'.id)) =>
        /\ libros' = libros
        /\ last'.rows = 0
        /\ (last'.op = "eliminar_libro" \/ HasRequired(last'.data)) => last'.err = ""]_vars

C6_Witness ==
    /\ last.op = "actualizar_libro"
    /\ last.rows = 0
    /\ last.err = ""
    /\ ~Stored(libros, last.id)
    /\ Cardinality(libros) >= 2

(***************************************************************************)
(* C7: with any combination of the filters anio_lectura, genero,           *)
(* calificacion_min and calificacion_max, obtener_libros returns exactly   *)
(* the books that satisfy all the supplied filters; with none, all books.  *)
(***************************************************************************)
FourFilters == {"anio_lectura", "genero", "calificacion_min", "calificacion_max"}

C7_Satisfies(f, b) ==
    /\ "anio_lectura" \in DOMAIN f => b.anio_lectura = f["anio_lectura"]
    /\ "genero" \in DOMAIN f => b.genero = f["genero"]
    /\ "calificacion_min" \in DOMAIN f => b.calificacion >= f["calificacion_min"]
    /\ "calificacion_max" \in DOMAIN f => b.calificacion <= f["calificacion_max"]

C7_FiltersSelectExactly ==
    (last.op = "obtener_libros" /\ DOMAIN last.filtros \subseteq FourFilters) =>
        /\ RetSet = {b \in libros : C7_Satisfies(last.filtros, b)}
        /\ Len(last.ret) = Cardinality(RetSet)
        /\ last.filtros = <<>> => RetSet = libros

C7_Witness ==
    /\ last.op = "obtener_libros"
    /\ {"genero", "calificacion_min"} \subseteq DOMAIN last.filtros
    /\ DOMAIN last.filtros \subseteq FourFilters
    /\ Len(last.ret) = 1
    /\ Cardinality(libros) = 2
    /\ \E b \in RetSet : b.calificacion = last.filtros["calificacion_min"]

(***************************************************************************)
(* C8: the sequence obtener_libros returns is ordered by read-date         *)
(* descending.                                                             *)
(***************************************************************************)
C8_OrderedByFechaDesc ==
    last.op = "obtener_libros" =>
        \A k \in 1..(Len(last.ret) - 1) :
            last.ret[k].fecha_lectura >= last.ret[k + 1].fecha_lectura

C8_Witness ==
    /\ last.op = "obtener_libros"
    /\ Len(last.ret) >= 2
    /\ last.ret[1].fecha_lectura > last.ret[2].fecha_lectura
    /\ last.ret[1].id > last.ret[2].id

(***************************************************************************)
(* C9: every persisted book row has a non-empty title and a non-empty      *)
(* author.                                                                 *)
(***************************************************************************)
C9_TitleAndAuthorNeverEmpty ==
    \A b \in libros : b.titulo # <<>> /\ b.autor # <<>>

(***************************************************************************)
(* C2: when the row of book i is selected and 'Editar Libro' is chosen,    *)
(* the edit dialog shows the stored fields of book i and its 'Guardar      *)
(* Cambios' button is bound to id i, so that the update goes to row i and  *)
(* to no other row, whatever other books are stored.                       *)
(***************************************************************************)
C2_EditDialogIsForSelectedBook ==
    (last.op = "edit_book" /\ last.err = "" /\ last.msgs = <<>>) =>
        \E b \in libros :
            /\ b.id = last.id
            /\ dialogs[edit_vars] = show_book_edit_dialog(b)

(***************************************************************************)
(* C10: add_book or update_book with an empty title or author, and         *)
(* update_user with an empty name, show one error message and make no call *)
(* to a repository; the books, the user row, what the window shows of them *)
(* and (for add_book) the form are left as they were.                      *)
(***************************************************************************)
C10_RequiredFieldEmpty(call) ==
    \/ /\ call.op \in {"add_book", "update_book"}
       /\ (call.data.titulo = <<>> \/ call.data.autor = <<>>)
    \/ /\ call.op = "update_user"
       /\ call.data.nombre = ""

C10_ValidationFailureWritesNothing ==
    [][C10_RequiredFieldEmpty(last') =>
          /\ Len(last'.msgs) = 1
          /\ last'.msgs[1].type = "error"
          /\ last'.calls = <<>>
          /\ UNCHANGED <<libros, seq, usuario, table, user_info>>
          /\ (last'.op = "add_book" => UNCHANGED form)]_vars

\* update_book has refused an edit with an empty author while a book is stored
C10_Witness ==
    /\ libros # {}
    /\ last.op = "update_book"
    /\ last.data.titulo # <<>>
    /\ last.data.autor = <<>>
    /\ last.msgs = <<RequiredMsg>>

RowOf(L, libro_id) == CHOOSE b \in L : b.id = libro_id

(***************************************************************************)
(* C11: a book added or updated through the coordinator with the year      *)
(* field left empty is stored with the current year, and with the pages    *)
(* field left empty is stored with 0 pages; so the row written by add_book *)
(* or update_book holds an integer year and an integer page count.         *)
(***************************************************************************)
\* what the user had typed when add_book or update_book was called
TypedFields ==
    IF last'.op = "add_book" THEN form ELSE dialogs[edit_vars].widgets

C11_EmptyYearAndPagesGetDefaults ==
    [][(last'.op \in {"add_book", "update_book"} /\ last'.rows = 1) =>
          LET b == RowOf(libros', last'.id) IN
          /\ TypedFields.anio_lectura = <<>> => b.anio_lectura = YearOf(clock)
          /\ TypedFields.paginas = <<>> => b.paginas = 0
          /\ b.anio_lectura # EmptyText
          /\ b.paginas # EmptyText]_vars

(***************************************************************************)
(* C12: in add_book and update_book with a title and an author, a year     *)
(* text that is not empty and does not parse is replaced by the current    *)
(* year and such a page text by 0; the book is persisted with these values *)
(* and the only message shown is the one of success.                       *)
(***************************************************************************)
C12_Unparsable(text) == text # <<>> /\ \E i \in 1..Len(text) : ~IsDigit(text[i])

C12_FallbackIsSilent ==
    [][(/\ last'.op \in {"add_book", "update_book"}
        /\ TypedFields.titulo # <<>>
        /\ TypedFields.autor # <<>>
        /\ C12_Unparsable(TypedFields.anio_lectura) \/ C12_Unparsable(TypedFields.paginas)
        /\ last'.op = "update_book" => RowCount(libros, last'.id) = 1) =>
          /\ last'.rows = 1
          /\ \A i \in 1..Len(last'.msgs) : last'.msgs[i].type = "info"
          /\ \E b \in libros' :
                /\ b.id = last'.id
                /\ b.titulo = TypedFields.titulo
                /\ C12_Unparsable(TypedFields.anio_lectura) =>
                      b.anio_lectura = YearOf(clock)
                /\ C12_Unparsable(TypedFields.paginas) => b.paginas = 0]_vars

\* update_book has stored the current year for an unparsable year text
C12_Witness ==
    /\ last.op = "update_book"
    /\ last.rows = 1
    /\ clock = 1
    /\ \E b \in libros : b.id = last.id /\ b.anio_lectura = YearOf(1) /\ b.paginas = 0

(***************************************************************************)
(* C13: when a repository call made during an intent of the coordinator    *)
(* raises, the intent catches it and shows a message; no exception leaves  *)
(* the coordinator.                                                        *)
(***************************************************************************)
C13_FailureIsCaughtAndShown ==
    (/\ last.op \in Intents
     /\ last.calls # <<>>
     /\ last.calls[Len(last.calls)] = StoreError) =>
        /\ last.err = ""
        /\ last.msgs # <<>>

(***************************************************************************)
(* C14: the stored books have pairwise distinct ids; a create returns an   *)
(* id no stored row holds; and no operation changes the id of a row: the   *)
(* set of ids changes only by a create adding the id it returns and by a   *)
(* delete removing the id it was given.                                    *)
(***************************************************************************)
BookIds(L) == {b.id : b \in L}

C14_Created == IF last'.op = "crear_libro" /\ last'.err = "" THEN {last'.id} ELSE {}

C14_Deleted == IF last'.op = "eliminar_libro" THEN {last'.id} ELSE {}

C14_IdsUniqueAndStable ==
    [][/\ \A a, b \in libros' : a.id = b.id => a = b
       /\ C14_Created \cap BookIds(libros) = {}
       /\ BookIds(libros') = (BookIds(libros) \ C14_Deleted) \cup C14_Created
       /\ last'.op = "actualizar_libro" =>
             Cardinality(libros') = Cardinality(libros)]_vars

\* a create after a delete: the id of the deleted row is not given again
C14_Witness ==
    /\ last.op = "crear_libro"
    /\ last.err = ""
    /\ last.id = 2
    /\ BookIds(libros) = {2}

(***************************************************************************)
(* C15: after the first initialization the user table holds exactly one    *)
(* row in every reachable state: _initialize_database on an existing store *)
(* inserts no second default row, and neither the book operations nor the  *)
(* updates of the profile add or remove a user row.                        *)
(***************************************************************************)
C15_ExactlyOneUserRow == Cardinality(usuario) = 1

\* the store of a renamed user with books was opened again
C15_Witness ==
    /\ last.op = "_initialize_database"
    /\ libros # {}
    /\ \E u \in usuario : u.nombre = "Bo"

(***************************************************************************)
(* C16: update_user with a name and an email (name not empty) changes the  *)
(* name and the email of the single profile row; its id, avatar and        *)
(* preferences keep the values stored before the call.                     *)
(***************************************************************************)
C16_UpdateUserKeepsTheRest ==
    [][(last'.op = "update_user" /\ last'.data.nombre # "") =>
          LET before == obtener_usuario(usuario)
              after  == obtener_usuario(usuario')
          IN  /\ Cardinality(usuario') = 1
              /\ after.nombre = last'.data.nombre
              /\ after.email = last'.data.email
              /\ after.id = before.id
              /\ after.avatar = before.avatar
              /\ after.preferencias = before.preferencias
              /\ after.fecha_creacion = before.fecha_creacion]_vars

\* update_user has renamed a profile that has its own avatar and preferences
C16_Witness ==
    /\ last.op = "update_user"
    /\ last.rows = 1
    /\ \E u \in usuario :
          /\ u.nombre = "Ana"
          /\ u.avatar = "a.png"
          /\ u.preferencias # <<>>

(***************************************************************************)
(* C17: actualizar_usuario with the preferences p followed by              *)
(* obtener_usuario returns preferences equal to p: the same keys with the  *)
(* same values, in whatever order.                                         *)
(***************************************************************************)
Items(prefs) == {prefs[i] : i \in 1..Len(prefs)}

C17_PreferencesRoundTrip ==
    [][(/\ last.op = "actualizar_usuario"
        /\ last.rows = 1
        /\ "preferencias" \in DOMAIN last.data
        /\ last'.op = "obtener_usuario") =>
          Items(last'.ret[1].preferencias) = Items(last.data.preferencias)]_vars

(***************************************************************************)
(* C18: after any sequence of creates, updates and deletes,                *)
(* obtener_estadisticas returns total_libros equal to the number of stored *)
(* books and promedio_calificacion equal to the mean of their ratings; on  *)
(* an empty store the total is 0, the average 0 and both breakdowns empty. *)
(***************************************************************************)
RECURSIVE C18_Sum(_)
C18_Sum(ratings) ==
    IF ratings = <<>> THEN 0 ELSE Head(ratings) + C18_Sum(Tail(ratings))

\* the ratings of the stored books, by id
C18_Ratings ==
    LET ids == {b.id : b \in libros}
        F[i \in 0..seq] ==
            IF i = 0 THEN <<>>
            ELSE IF i \in ids THEN Append(F[i - 1], RowOf(libros, i).calificacion)
            ELSE F[i - 1]
    IN  F[seq]

C18_TotalAndMean ==
    last.op = "obtener_estadisticas" =>
        LET stats == last.ret[1] IN
        /\ stats.total_libros = Cardinality(libros)
        /\ stats.promedio_calificacion.den > 0
        /\ IF libros = {}
           THEN /\ stats.total_libros = 0
                /\ stats.promedio_calificacion.num = 0
                /\ stats.libros_por_anio = <<>>
                /\ stats.generos_populares = <<>>
           ELSE stats.promedio_calificacion.num * Len(C18_Ratings)
                    = C18_Sum(C18_Ratings) * stats.promedio_calificacion.den

\* the mean of two ratings that is no whole number, after an update
C18_Witness ==
    /\ last.op = "obtener_estadisticas"
    /\ Cardinality(libros) = 2
    /\ last.ret[1].promedio_calificacion = [num |-> 7, den |-> 2]
    /\ \E b \in libros : b.fecha_actualizacion > b.fecha_creacion

(***************************************************************************)
(* C20: libros_por_anio lists every year-read of the stored books once,    *)
(* with the number of books of that year, in strictly descending order of  *)
(* year, and its counts add up to total_libros.                            *)
(***************************************************************************)
RECURSIVE C20_SumCounts(_)
C20_SumCounts(rows) ==
    IF rows = <<>> THEN 0 ELSE Head(rows)[2] + C20_SumCounts(Tail(rows))

C20_YearBreakdown ==
    last.op = "obtener_estadisticas" =>
        LET stats == last.ret[1]
            rows  == stats.libros_por_anio
        IN  /\ {rows[i][1] : i \in 1..Len(rows)} = {b.anio_lectura : b \in libros}
            /\ \A i \in 1..Len(rows) :
                  rows[i][2] = Cardinality({b \in libros : b.anio_lectura = rows[i][1]})
            /\ \A i \in 1..(Len(rows) - 1) : rows[i][1] > rows[i + 1][1]
            /\ C20_SumCounts(rows) = stats.total_libros

\* two books read in different years, the later year first
C20_Witness ==
    /\ last.op = "obtener_estadisticas"
    /\ Len(last.ret[1].libros_por_anio) = 2
    /\ last.ret[1].libros_por_anio[1][2] = 1
    /\ last.ret[1].libros_por_anio[2][2] = 1
    /\ last.ret[1].libros_por_anio[1][1] = 2025

(***************************************************************************)
(* C19: generos_populares has at most 5 entries, each a different stored   *)
(* genre with the number of books of that genre, in non-increasing order   *)
(* of count, and no genre left out has more books than a listed one.       *)
(***************************************************************************)
C19_Count(g) == Cardinality({b \in libros : b.genero = g})

C19_TopGenres ==
    last.op = "obtener_estadisticas" =>
        LET rows   == last.ret[1].generos_populares
            listed == {rows[i][1] : i \in 1..Len(rows)}
        IN  /\ Len(rows) <= 5
            /\ \A i, j \in 1..Len(rows) : rows[i][1] = rows[j][1] => i = j
            /\ \A i \in 1..Len(rows) :
                  /\ rows[i][2] > 0
                  /\ rows[i][2] = C19_Count(rows[i][1])
            /\ \A i \in 1..(Len(rows) - 1) : rows[i][2] >= rows[i + 1][2]
            /\ \A b \in libros : \A i \in 1..Len(rows) :
                  b.genero \notin listed => C19_Count(b.genero) <= rows[i][2]

\* six genres are stored, one of them twice: five are listed
C19_Witness ==
    /\ last.op = "obtener_estadisticas"
    /\ Cardinality({b.genero : b \in libros}) = 6
    /\ Len(last.ret[1].generos_populares) = 5
    /\ last.ret[1].generos_populares[1][2] = 2
    /\ last.ret[1].generos_populares[5][2] = 1

(***************************************************************************)
(* C21: generar_informe_lectura(i) returns an empty result exactly when no *)
(* stored book has id i; otherwise it returns the record of book i with    *)
(* total_libros_leidos equal to the number of books stored at that moment  *)
(* and promedio_calificacion_global equal to the mean of their ratings.    *)
(***************************************************************************)
C21_ReportIsCurrent ==
    last.op = "generar_informe_lectura" =>
        LET informe == last.ret[1] IN
        /\ DOMAIN informe = {} <=> ~Stored(libros, last.id)
        /\ Stored(libros, last.id) =>
              /\ \A k \in column_names : informe[k] = RowOf(libros, last.id)[k]
              /\ informe.total_libros_leidos = Cardinality(libros)
              /\ informe.promedio_calificacion_global.den > 0
              /\ informe.promedio_calificacion_global.num * Len(C18_Ratings)
                    = C18_Sum(C18_Ratings) * informe.promedio_calificacion_global.den

\* the report of an updated book, asked for after another book was deleted
C21_Witness ==
    /\ last.op = "generar_informe_lectura"
    /\ seq = 2
    /\ Cardinality(libros) = 1
    /\ Stored(libros, last.id)
    /\ last.ret[1].total_libros_leidos = 1
    /\ \E b \in libros : b.id = last.id /\ b.fecha_actualizacion > b.fecha_creacion

(***************************************************************************)
(* C22: exportar_a_csv returns False and leaves the file as it was (absent *)
(* if it was absent, with its former content otherwise) when no book       *)
(* matches the filter; when N >= 1 books match it returns True and the     *)
(* file then holds the header row and exactly N data rows, one per         *)
(* matching book.                                                          *)
(***************************************************************************)
C22_Matching == {b \in libros : Where(last'.filtros, b)}

C22_ExportWritesHeaderAndMatches ==
    [][last'.op = "exportar_a_csv" =>
          IF C22_Matching = {}
          THEN /\ last'.ret = <<FALSE>>
               /\ csvfile' = csvfile
          ELSE /\ last'.ret = <<TRUE>>
               /\ csvfile'.exists
               /\ csvfile'.header = fieldnames
               /\ Len(csvfile'.rows) = Cardinality(C22_Matching)
               /\ {row[1] : row \in {csvfile'.rows[i] : i \in 1..Len(csvfile'.rows)}}
                     = {b.id : b \in C22_Matching}]_vars

\* an export that matched nothing, over the file an export of two books wrote
C22_Witness ==
    /\ last.op = "exportar_a_csv"
    /\ last.ret = <<FALSE>>
    /\ libros # {}
    /\ csvfile.exists
    /\ Len(csvfile.rows) = 2

(***************************************************************************)
(* C23: every actualizar_libro on a stored row leaves the row with a       *)
(* fecha_actualizacion strictly later than the one it had, also when the   *)
(* update follows the creation or another update at once.                  *)
(***************************************************************************)
C23_UpdateAdvancesTimestamp ==
    [][(/\ last'.op = "actualizar_libro"
        /\ last'.err = ""
        /\ Stored(libros, last'.id)) =>
          /\ Stored(libros', last'.id)
          /\ RowOf(libros', last'.id).fecha_actualizacion
                > RowOf(libros, last'.id).fecha_actualizacion]_vars

(***************************************************************************)
(* C24: crear_libro on a dictionary that lacks titulo, autor or genero     *)
(* raises the missing-key error (KeyError) and inserts no row: the table   *)
(* and the AUTOINCREMENT sequence are as they were.                        *)
(***************************************************************************)
C24_MissingRequiredKeyInsertsNothing ==
    [][(/\ last'.op = "crear_libro"
        /\ \E k \in {"titulo", "autor", "genero"} : k \notin DOMAIN last'.data) =>
          /\ last'.err = "KeyError"
          /\ libros' = libros
          /\ seq' = seq]_vars

\* a create without autor and genero has failed on a store that holds a book
C24_Witness ==
    /\ last.op = "crear_libro"
    /\ DOMAIN last.data \cap {"titulo", "autor", "genero"} = {"titulo"}
    /\ last.err = "KeyError"
    /\ Cardinality(libros) = 1
    /\ seq = 1

(***************************************************************************)
(* C25: an intent of the coordinator that reaches the repository calls     *)
(* exactly one repository operation before the view is refreshed; the two  *)
(* obtener_libros reads that _refresh_books_table makes itself are not     *)
(* counted.                                                                *)
(***************************************************************************)
C25_BeforeRefresh ==
    IF /\ Len(last.calls) >= Len(RefreshCalls)
       /\ SubSeq(last.calls, Len(last.calls) - Len(RefreshCalls) + 1, Len(last.calls))
             = RefreshCalls
    THEN SubSeq(last.calls, 1, Len(last.calls) - Len(RefreshCalls))
    ELSE last.calls

C25_OneRepositoryCallPerIntent ==
    (/\ last.op \in {"add_book", "edit_book", "update_book", "delete_book",
                     "update_user"}
     /\ last.calls # <<>>) =>
        Len(C25_BeforeRefresh) = 1

(***************************************************************************)
(* C26: when export_to_csv follows filter_books with no change of the      *)
(* filter widgets in between and the user chooses a path, the file holds   *)
(* exactly the books that match the filter filter_books applied, which are *)
(* the rows the table displays; when none matches, no file is written.     *)
(***************************************************************************)
C26_Matching == {b.id : b \in {x \in libros : Where(last.filtros, x)}}

C26_ExportFollowsAppliedFilter ==
    [][(/\ last.op = "filter_books"
        /\ last'.op = "export_to_csv"
        /\ last'.ret # <<>>) =>
          /\ C26_Matching = {table[i].id : i \in 1..Len(table)}
          /\ IF C26_Matching = {}
             THEN csvfile' = csvfile
             ELSE /\ csvfile'.exists
                  /\ {csvfile'.rows[i][1] : i \in 1..Len(csvfile'.rows)}
                        = C26_Matching]_vars

(***************************************************************************)
(* C27: when add_book, update_book or delete_book has completed with its   *)
(* success message, the table displays exactly the stored books, each once *)
(* and with its stored values, whatever filter was applied before; so the  *)
(* id of every row that can be selected is the id of a stored book.        *)
(***************************************************************************)
C27_Completed ==
    /\ last.op \in {"add_book", "update_book", "delete_book"}
    /\ last.err = ""
    /\ last.msgs # <<>>
    /\ last.msgs[Len(last.msgs)].type = "info"

C27_TableShowsTheStore ==
    C27_Completed =>
        /\ Len(table) = Cardinality(libros)
        /\ {table[i].id : i \in 1..Len(table)} = {b.id : b \in libros}
        /\ \A i \in 1..Len(table) :
              /\ Stored(libros, get_selected_book_id(table, i))
              /\ \A col \in TableColumns :
                    table[i][col] = RowOf(libros, table[i].id)[col]

\* a book was updated and the table shows both stored books
C27_Witness ==
    /\ C27_Completed
    /\ last.op = "update_book"
    /\ last.rows = 1
    /\ Cardinality(libros) = 2
    /\ Len(table) = 2

(***************************************************************************)
(* C28: an add_book never gives the new book the id an open edit dialog is *)
(* bound to, and a Save whose update_book reaches the repository with the  *)
(* id of a book that is no longer stored changes no row: the deleted book  *)
(* is not created again and no other book is written.                      *)
(***************************************************************************)
C28_SaveAfterDeleteChangesNothing ==
    [][/\ (last'.op = "add_book" /\ last'.rows = 1) =>
              /\ ~Stored(libros, last'.id)
              /\ \A d \in DOMAIN dialogs :
                    dialogs[d].open => dialogs[d].book_id # last'.id
       /\ (/\ last'.op = "update_book"
           /\ last'.calls # <<>>
           /\ ~Stored(libros, last'.id)) =>
              /\ libros' = libros
              /\ last'.rows = 0]_vars

\* Save of the dialog of book 1, deleted before book 2 was added
C28_Witness ==
    /\ last.op = "update_book"
    /\ last.calls # <<>>
    /\ last.id = 1
    /\ last.rows = 0
    /\ BookIds(libros) = {2}

(***************************************************************************)
(* C29: when Save of an open dialog d calls update_book while another      *)
(* dialog is open too, update_book gets the id of the book d was opened    *)
(* for and the values the widgets of d hold.                               *)
(***************************************************************************)
C29_SaveSubmitsItsOwnDialog ==
    [][\A d \in DOMAIN dialogs :
          (/\ last'.op = "update_book"
           /\ dialogs[d].open
           /\ ~dialogs'[d].open
           /\ \E e \in DOMAIN dialogs : e # d /\ dialogs[e].open) =>
              /\ last'.id = dialogs[d].book_id
              /\ \A k \in {"titulo", "autor", "genero", "subgenero", "calificacion",
                           "editorial", "comentario"} :
                    last'.data[k] = dialogs[d].widgets[k]]_vars

(***************************************************************************)
(* C30: an actualizar_libro that changes a row gives every optional column *)
(* whose key the dictionary lacks its default ('' for the texts, 0 for     *)
(* rating and pages, the current year and the current date), not the value *)
(* stored before; update_book never passes fecha_lectura, so every         *)
(* update_book that changes a row leaves it with the current date as       *)
(* fecha_lectura.                                                          *)
(***************************************************************************)
C30_Default(k, c) ==
    CASE k = "anio_lectura"  -> YearOf(c)
      [] k = "fecha_lectura" -> DateOf(c)
      [] k \in {"calificacion", "paginas"} -> 0
      [] OTHER -> ""

C30_MissingKeysGetDefaults ==
    [][/\ (/\ last'.op = "actualizar_libro"
           /\ last'.err = ""
           /\ Stored(libros, last'.id)) =>
              \A k \in MutableColumns \ DOMAIN last'.data :
                 RowOf(libros', last'.id)[k] = C30_Default(k, clock)
       /\ (last'.op = "update_book" /\ last'.rows = 1) =>
              /\ "fecha_lectura" \notin DOMAIN last'.data
              /\ RowOf(libros', last'.id).fecha_lectura = DateOf(clock)]_vars

\* a book whose read-date was 2020-01-05 was saved from the dialog in 2025
C30_Witness ==
    /\ last.op = "update_book"
    /\ last.rows = 1
    /\ clock = 1
    /\ RowOf(libros, last.id).fecha_creacion = 0
    /\ RowOf(libros, last.id).fecha_lectura = DateOf(1)
    /\ RowOf(libros, last.id).fecha_actualizacion = 1

====
